---- MODULE Spec2Model ----
(***************************************************************************)
(* Axle-load calculators of calculate.py (EQUAL_PAIR) and calculate_new.py *)
(* (RIGID_FRAME with EQUAL_PAIR fallback).                                 *)
(*                                                                         *)
(* Numbers.  Python's "/" yields a float; a load is modelled as the exact  *)
(* rational [n, d] (d > 0, lowest terms) that the float approximates.      *)
(* IEEE rounding (relative error about 1e-16 per operation) is not         *)
(* modelled, so an equality of loads below means equality of the exact     *)
(* values; the properties about sums are stated with the 1e-6 relative     *)
(* tolerance.  Lengths are decimal fixed-point numbers: an integer count   *)
(* of 10^(-len_exp) mm.  The constructor's integers have len_exp = 0.      *)
(* Integer products (W * (S2 - S1 * d_i), on int or numpy int64) stay      *)
(* below 2^63 for these magnitudes and are exact.                          *)
(***************************************************************************)
EXTENDS Integers, Sequences, FiniteSets, TLC

VARIABLES total_weight, L1, L2, L3, axle_positions, len_exp,
          vehicle,
          last_call, returned, raised, stdout,
          equilibrium_point, max_front, max_rear

config == <<total_weight, L1, L2, L3, axle_positions, len_exp, vehicle>>
vars == <<total_weight, L1, L2, L3, axle_positions, len_exp,
          vehicle,
          last_call, returned, raised, stdout,
          equilibrium_point, max_front, max_rear>>

----------------------------------------------------------------------------
(* Exact rational arithmetic standing for Python float arithmetic.         *)

Abs(i) == IF i < 0 THEN -i ELSE i

RECURSIVE Gcd(_, _)
Gcd(a, b) == IF b = 0 THEN Abs(a) ELSE Gcd(b, a % Abs(b))

Rat(n, d) ==
  LET g == Gcd(n, d)
      s == IF d < 0 THEN -1 ELSE 1
  IN  [n |-> s * (n \div g), d |-> s * (d \div g)]

RInt(i) == [n |-> i, d |-> 1]

Lcm(a, b) == (a \div Gcd(a, b)) * b

RAdd(p, q) ==
  LET l == Lcm(p.d, q.d)
  IN  Rat(p.n * (l \div p.d) + q.n * (l \div q.d), l)

RNeg(p) == [n |-> -p.n, d |-> p.d]

RSub(p, q) == RAdd(p, RNeg(q))

RMul(p, q) ==
  LET g1 == Gcd(p.n, q.d)
      g2 == Gcd(q.n, p.d)
  IN  Rat((p.n \div g1) * (q.n \div g2), (p.d \div g2) * (q.d \div g1))

RDiv(p, q) == RMul(p, Rat(q.d, q.n))

RAbs(p) == [n |-> Abs(p.n), d |-> p.d]

RLt(p, q) ==
  LET l == Lcm(p.d, q.d)
  IN  p.n * (l \div p.d) < q.n * (l \div q.d)

RNegative(p) == p.n < 0

(* a * b / c, the product taken before the division as in the source.      *)
MulDiv(a, b, c) == RMul(RInt(a), Rat(b, c))

RSum4(a, b, c, e) == RAdd(RAdd(a, b), RAdd(c, e))

----------------------------------------------------------------------------
(* Wide exact arithmetic for dynamic_simulation.py.  Its floats are        *)
(* products of four-digit decimals (0.8235, 6.727, 11.54, ...), so the     *)
(* exact values they approximate need more digits than one machine integer *)
(* of the checker holds.  A wide natural number is a sequence of limbs in  *)
(* base 10^4, least significant first; a wide integer adds a sign; a wide  *)
(* rational is [n, d] with d > 0, not reduced, so two of them are compared *)
(* with QEq / QLt and never with "=".  IEEE rounding is not modelled.      *)

Base == 10000

RECURSIVE Limbs(_)
Limbs(n) == IF n = 0 THEN <<>> ELSE <<n % Base>> \o Limbs(n \div Base)

Limb(a, i) == IF i <= Len(a) THEN a[i] ELSE 0

RECURSIVE Trim(_)
Trim(a) ==
  IF Len(a) > 0 /\ a[Len(a)] = 0 THEN Trim(SubSeq(a, 1, Len(a) - 1)) ELSE a

RECURSIVE AddC(_, _, _, _)
AddC(a, b, i, c) ==
  IF i > Len(a) /\ i > Len(b) THEN (IF c = 0 THEN <<>> ELSE <<c>>)
  ELSE LET s == Limb(a, i) + Limb(b, i) + c
       IN  <<s % Base>> \o AddC(a, b, i + 1, s \div Base)

MagAdd(a, b) == AddC(a, b, 1, 0)

RECURSIVE SubB(_, _, _, _)
SubB(a, b, i, c) ==
  IF i > Len(a) THEN <<>>
  ELSE LET s == a[i] - Limb(b, i) - c
       IN  IF s < 0 THEN <<s + Base>> \o SubB(a, b, i + 1, 1)
           ELSE <<s>> \o SubB(a, b, i + 1, 0)

(* a - b for a >= b *)
MagSub(a, b) == Trim(SubB(a, b, 1, 0))

MagLt(a, b) ==
  IF Len(a) # Len(b) THEN Len(a) < Len(b)
  ELSE LET diff == {i \in 1..Len(a) : a[i] # b[i]}
       IN  /\ diff # {}
           /\ LET top == CHOOSE i \in diff : \A j \in diff : j <= i
              IN  a[top] < b[top]

RECURSIVE ColSum(_, _, _, _)
ColSum(a, b, k, i) ==
  IF i > Len(a) \/ i > k THEN 0
  ELSE (IF k + 1 - i <= Len(b) THEN a[i] * b[k + 1 - i] ELSE 0)
       + ColSum(a, b, k, i + 1)

RECURSIVE CarryC(_, _, _, _, _)
CarryC(a, b, k, n, c) ==
  IF k > n THEN Limbs(c)
  ELSE LET s == ColSum(a, b, k, 1) + c
       IN  <<s % Base>> \o CarryC(a, b, k + 1, n, s \div Base)

MagMul(a, b) ==
  IF Len(a) = 0 \/ Len(b) = 0 THEN <<>>
  ELSE IF a = <<1>> THEN b
  ELSE IF b = <<1>> THEN a
  ELSE IF Len(a) <= Len(b) THEN CarryC(a, b, 1, Len(a) + Len(b) - 1, 0)
  ELSE CarryC(b, a, 1, Len(a) + Len(b) - 1, 0)

Z(n) == [neg |-> n < 0, mag |-> Limbs(Abs(n))]

ZNeg(x) == [neg |-> ~x.neg /\ x.mag # <<>>, mag |-> x.mag]

ZAdd(x, y) ==
  IF x.neg = y.neg THEN [neg |-> x.neg, mag |-> MagAdd(x.mag, y.mag)]
  ELSE IF MagLt(x.mag, y.mag)
       THEN [neg |-> y.neg, mag |-> MagSub(y.mag, x.mag)]
       ELSE LET d == MagSub(x.mag, y.mag)
            IN  [neg |-> x.neg /\ d # <<>>, mag |-> d]

ZSub(x, y) == ZAdd(x, ZNeg(y))

ZMul(x, y) ==
  LET p == MagMul(x.mag, y.mag)
  IN  [neg |-> (x.neg # y.neg) /\ p # <<>>, mag |-> p]

ZLt(x, y) ==
  IF x.neg # y.neg THEN x.neg
  ELSE IF x.neg THEN MagLt(y.mag, x.mag) ELSE MagLt(x.mag, y.mag)

(* The wide form of a rational [n, d] of machine integers. *)
QOf(p) == [n |-> Z(p.n), d |-> Z(p.d)]

(* The number n / d, n and d machine integers, d # 0. *)
Q(n, d) == QOf(Rat(n, d))

QAdd(p, q) ==
  IF p.d = q.d THEN [n |-> ZAdd(p.n, q.n), d |-> p.d]
  ELSE [n |-> ZAdd(ZMul(p.n, q.d), ZMul(q.n, p.d)), d |-> ZMul(p.d, q.d)]

QSub(p, q) ==
  IF p.d = q.d THEN [n |-> ZSub(p.n, q.n), d |-> p.d]
  ELSE [n |-> ZSub(ZMul(p.n, q.d), ZMul(q.n, p.d)), d |-> ZMul(p.d, q.d)]

QMul(p, q) == [n |-> ZMul(p.n, q.n), d |-> ZMul(p.d, q.d)]

(* p / q for q # 0 *)
QDiv(p, q) ==
  IF q.n.neg
  THEN [n |-> ZNeg(ZMul(p.n, q.d)), d |-> ZMul(p.d, ZNeg(q.n))]
  ELSE [n |-> ZMul(p.n, q.d), d |-> ZMul(p.d, q.n)]

QLt(p, q) == ZLt(ZMul(p.n, q.d), ZMul(q.n, p.d))

QLe(p, q) == ~QLt(q, p)

QEq(p, q) == ZMul(p.n, q.d) = ZMul(q.n, p.d)

QAbs(p) == [n |-> [neg |-> FALSE, mag |-> p.n.mag], d |-> p.d]

----------------------------------------------------------------------------
(* Outcome of a call: the value returned or the exception raised, and the  *)
(* warning lines it printed (report lines are not modelled).               *)

None == [none |-> TRUE]

Return(v, out) == [exc |-> "none", value |-> v, out |-> out]

Raise(e, out) == [exc |-> e, value |-> None, out |-> out]

(* abs(denominator) < 1e-10, the denominator counted in units of           *)
(* 10^(-2*len_exp) mm^2: an integer number of mm^2 is below 1e-10 only     *)
(* when it is 0.                                                           *)
RECURSIVE Pow10(_)
Pow10(k) == IF k = 0 THEN 1 ELSE 10 * Pow10(k - 1)

NearZero_exact(denominator) == denominator = 0

NearZero(denominator) ==
  IF 2 * len_exp >= 10
  THEN Abs(denominator) < Pow10(2 * len_exp - 10)
  ELSE denominator = 0

----------------------------------------------------------------------------
(* EQUAL_PAIR formulas, the same lines in calculate.py                     *)
(* (calculate_axle_loads) and calculate_new.py (calculate_axle_loads_old). *)

(* y = (W * (L1 + 2 * d)) / denominator *)
rear_per_axle(W, l1, d, denominator) ==
  Rat(W * (l1 + 2 * d), denominator)

(* x = (W - 2 * y) / 2 *)
front_per_axle_single_y(W, y) ==
  RDiv(RSub(RInt(W), y), RInt(2))

front_per_axle(W, y) ==
  RDiv(RSub(RInt(W), RMul(RInt(2), y)), RInt(2))

(* The dict calculate_axle_loads returns. *)
load_sample_axle2_rear(cg_position, cg_absolute, x, y) ==
  [cg_position |-> cg_position,
   cg_absolute |-> cg_absolute,
   axle1_load |-> x,
   axle2_load |-> y,
   axle3_load |-> y,
   axle4_load |-> y,
   front_total |-> RMul(RInt(2), x),
   rear_total |-> RMul(RInt(2), y),
   front_per_axle |-> x,
   rear_per_axle |-> y]

load_sample(cg_position, cg_absolute, x, y) ==
  [cg_position |-> cg_position,
   cg_absolute |-> cg_absolute,
   axle1_load |-> x,
   axle2_load |-> x,
   axle3_load |-> y,
   axle4_load |-> y,
   front_total |-> RMul(RInt(2), x),
   rear_total |-> RMul(RInt(2), y),
   front_per_axle |-> x,
   rear_per_axle |-> y]

(* calculate.py *)
calculate_axle_loads(cg_position) ==
  LET cg_absolute == axle_positions.axle2 + cg_position
      W == total_weight
      d == cg_position
      denominator == 2 * (L1 + 2 * L2 + L3)
  IN  IF denominator = 0 THEN Raise("ZeroDivisionError", <<>>) ELSE
      LET y == rear_per_axle(W, L1, d, denominator)
          x == front_per_axle(W, y)
          out == IF RNegative(x) \/ RNegative(y)
                 THEN <<[warning |-> "negative_axle_load", cg |-> cg_position]>>
                 ELSE <<>>
      IN  Return(load_sample(cg_position, cg_absolute, x, y), out)

----------------------------------------------------------------------------
(* calculate_new.py: RIGID_FRAME model and its EQUAL_PAIR fallback.        *)

calculate_axle_loads_old(cg_position) ==
  LET cg_absolute == axle_positions.axle2 + cg_position
      W == total_weight
      d == cg_position
      denominator == 2 * (L1 + 2 * L2 + L3)
  IN  IF denominator = 0 THEN Raise("ZeroDivisionError", <<>>) ELSE
      LET y == rear_per_axle(W, L1, d, denominator)
          x == front_per_axle(W, y)
          front_axle_load == RMul(RInt(2), x)
          rear_axle_load == RMul(RInt(2), y)
      IN  Return([cg_position |-> cg_position,
                  cg_absolute |-> cg_absolute,
                  axle1_load |-> x,
                  axle2_load |-> x,
                  axle3_load |-> y,
                  axle4_load |-> y,
                  front_total |-> front_axle_load,
                  rear_total |-> rear_axle_load,
                  front_per_axle_avg |-> x,
                  rear_per_axle_avg |-> y], <<>>)

(* d_i = x_i - cg_absolute for the four axles. *)
d_list(cg_position) ==
  LET cg_absolute == axle_positions.axle2 + cg_position
  IN  <<axle_positions.axle1 - cg_absolute,
        axle_positions.axle2 - cg_absolute,
        axle_positions.axle3 - cg_absolute,
        axle_positions.axle4 - cg_absolute>>

(* denominator = 4 * S2 - S1 ** 2 *)
rigid_frame_denominator_no_count(cg_position) ==
  LET d == d_list(cg_position)
      S1 == d[1] + d[2] + d[3] + d[4]
      S2 == d[1] * d[1] + d[2] * d[2] + d[3] * d[3] + d[4] * d[4]
  IN  S2 - S1 * S1

rigid_frame_denominator_unsquared(cg_position) ==
  LET d == d_list(cg_position)
      S1 == d[1] + d[2] + d[3] + d[4]
      S2 == d[1] * d[1] + d[2] * d[2] + d[3] * d[3] + d[4] * d[4]
  IN  4 * S2 - S1

rigid_frame_denominator(cg_position) ==
  LET d == d_list(cg_position)
      S1 == d[1] + d[2] + d[3] + d[4]
      S2 == d[1] * d[1] + d[2] * d[2] + d[3] * d[3] + d[4] * d[4]
  IN  4 * S2 - S1 * S1

(* F_i = W * (S2 - S1 * d_i) / denominator *)
axle_load_plus(W, S1, S2, d_i, denominator) ==
  MulDiv(W, S2 + S1 * d_i, denominator)

axle_load(W, S1, S2, d_i, denominator) ==
  MulDiv(W, S2 - S1 * d_i, denominator)

calculate_axle_loads_new_model(cg_position) ==
  LET cg_absolute == axle_positions.axle2 + cg_position
      d == d_list(cg_position)
      S1 == d[1] + d[2] + d[3] + d[4]
      S2 == d[1] * d[1] + d[2] * d[2] + d[3] * d[3] + d[4] * d[4]
      W == total_weight
      denominator == rigid_frame_denominator(cg_position)
  IN  IF NearZero(denominator)
      THEN LET old == calculate_axle_loads_old(cg_position)
               msg == <<[warning |-> "denominator_near_zero", cg |-> cg_position]>>
           IN  [old EXCEPT !.out = msg \o @]
      ELSE
      LET F1 == axle_load(W, S1, S2, d[1], denominator)
          F2 == axle_load(W, S1, S2, d[2], denominator)
          F3 == axle_load(W, S1, S2, d[3], denominator)
          F4 == axle_load(W, S1, S2, d[4], denominator)
          front_axle_load == RAdd(F1, F2)
          rear_axle_load == RAdd(F3, F4)
      IN  Return([cg_position |-> cg_position,
                  cg_absolute |-> cg_absolute,
                  axle1_load |-> F1,
                  axle2_load |-> F2,
                  axle3_load |-> F3,
                  axle4_load |-> F4,
                  front_total |-> front_axle_load,
                  rear_total |-> rear_axle_load,
                  front_per_axle_avg |-> RDiv(front_axle_load, RInt(2)),
                  rear_per_axle_avg |-> RDiv(rear_axle_load, RInt(2))], <<>>)

(* f"{value:.1f}": the value rounded to tenths, ties to even; the result   *)
(* is the number of tenths.                                                *)
format_1f_truncated(p) == (10 * p.n) \div p.d

format_1f(p) ==
  LET q == (10 * p.n) \div p.d
      r == (10 * p.n) % p.d
  IN  IF 2 * r > p.d THEN q + 1
      ELSE IF 2 * r = p.d THEN q + (q % 2)
      ELSE q

----------------------------------------------------------------------------
(* numpy.arange(start, stop, step) on integers: ceil((stop - start)/step)  *)
(* values start, start + step, ...; none when that count is not positive;  *)
(* a zero step raises.                                                     *)

CeilDiv(a, b) == IF b > 0 THEN -((-a) \div b) ELSE -(a \div (-b))

arange_len(start, stop, step) ==
  LET k == CeilDiv(stop - start, step) IN IF k > 0 THEN k ELSE 0

arange(start, stop, step) ==
  [i \in 1..arange_len(start, stop, step) |-> start + (i - 1) * step]

(* The loop of analyze_load_distribution calls the model once per offset,  *)
(* in order, and appends what it returns; each call prints at most one     *)
(* warning line.  An exception in a call ends the sweep.                   *)
sweep(calls) ==
  LET n == Len(calls)
      failed == {i \in 1..n : calls[i].exc # "none"}
      first == CHOOSE i \in failed : \A j \in failed : i <= j
      upto == IF failed = {} THEN n ELSE first
      printed == SelectSeq([i \in 1..upto |-> calls[i].out],
                           LAMBDA o : o # <<>>)
      out == [j \in 1..Len(printed) |-> printed[j][1]]
  IN  IF failed = {}
      THEN Return([i \in 1..n |-> calls[i].value], out)
      ELSE Raise(calls[first].exc, out)

(* calculate_new.py *)
analyze_load_distribution_new(cg_range, step) ==
  IF step = 0 THEN Raise("ZeroDivisionError", <<>>)
  ELSE LET cg_positions == arange(cg_range[1], cg_range[2] + step, step)
       IN  sweep([i \in 1..Len(cg_positions) |->
                    calculate_axle_loads_new_model(cg_positions[i])])

(* compare_models of calculate_new.py: both models at every offset, new    *)
(* before old; it prints its table and returns None.                       *)
compare_models(cg_range, step) ==
  IF step = 0 THEN Raise("ZeroDivisionError", <<>>)
  ELSE LET positions_ == arange(cg_range[1], cg_range[2] + step, step)
           both == sweep([i \in 1..(2 * Len(positions_)) |->
                            IF i % 2 = 1
                            THEN calculate_axle_loads_new_model(
                                   positions_[(i + 1) \div 2])
                            ELSE calculate_axle_loads_old(
                                   positions_[i \div 2])])
       IN  IF both.exc = "none" THEN Return(None, both.out) ELSE both

(* calculate.py *)
analyze_load_distribution(cg_range, step) ==
  IF step = 0 THEN Raise("ZeroDivisionError", <<>>)
  ELSE LET cg_positions == arange(cg_range[1], cg_range[2] + step, step)
       IN  sweep([i \in 1..Len(cg_positions) |->
                    calculate_axle_loads(cg_positions[i])])

----------------------------------------------------------------------------
(* find_special_points (the same code in both files).                      *)

inf == [inf |-> TRUE, v |-> RInt(0)]

Finite(v) == [inf |-> FALSE, v |-> v]

(* if diff < min_diff: *)
diff_le_min_diff(diff, min_diff) == min_diff.inf \/ ~RLt(min_diff.v, diff)

diff_lt_min_diff(diff, min_diff) == min_diff.inf \/ RLt(diff, min_diff.v)

RECURSIVE equilibrium_loop(_, _, _, _)
equilibrium_loop(rs, i, min_diff, point) ==
  IF i > Len(rs) THEN point
  ELSE LET r == rs[i]
           diff == RAbs(RSub(r.front_total, r.rear_total))
       IN  IF diff_lt_min_diff(diff, min_diff)
           THEN equilibrium_loop(rs, i + 1, Finite(diff), r)
           ELSE equilibrium_loop(rs, i + 1, min_diff, point)

find_equilibrium(rs) == equilibrium_loop(rs, 1, inf, None)

(* max(results, key=...): the first element whose key no other exceeds.    *)
RECURSIVE max_loop_least(_, _, _, _)
max_loop_least(rs, key, i, best) ==
  IF i > Len(rs) THEN best
  ELSE IF RLt(rs[i][key], best[key])
       THEN max_loop_least(rs, key, i + 1, rs[i])
       ELSE max_loop_least(rs, key, i + 1, best)

RECURSIVE max_loop(_, _, _, _)
max_loop(rs, key, i, best) ==
  IF i > Len(rs) THEN best
  ELSE IF RLt(best[key], rs[i][key])
       THEN max_loop(rs, key, i + 1, rs[i])
       ELSE max_loop(rs, key, i + 1, best)

max_by(rs, key) == max_loop(rs, key, 2, rs[1])

----------------------------------------------------------------------------
(* VehiclePerformanceAnalysis of dynamic_simulation.py.  The object is a   *)
(* record of its attributes and a method takes it as self.  The gears      *)
(* '1档' .. '16档' of the gear table are named by their numbers 1 .. 16.   *)

VehiclePerformanceAnalysis ==
  [m |-> Q(24700, 1),
   g |-> Q(981, 100),
   rho |-> Q(1204, 1000),
   Cd |-> Q(6, 10),
   A |-> Q(101, 10),
   f |-> Q(5, 100),
   eta_T |-> Q(9, 10),
   r |-> Q(8235, 10000),
   gear_ratios |->
     << Q(138, 10), Q(1154, 100), Q(949, 100), Q(793, 100),
        Q(653, 100), Q(546, 100), Q(457, 100), Q(382, 100),
        Q(302, 100), Q(253, 100), Q(208, 100), Q(174, 100),
        Q(143, 100), Q(12, 10), Q(1, 1), Q(84, 100) >>,
   final_drive_ratio |-> Q(6727, 1000),
   engine_speed |->
     <<800, 1000, 1200, 1400, 1600, 1800, 1900, 2000, 2100, 2200>>,
   engine_torque |->
     <<2000, 2300, 2300, 2300, 2086, 1885, 1789, 1684, 1580, 1475>>]

(* A numpy array: the elements are computed when the array is built. *)
Array(a) == <<>> \o a

(* vehicle_speed = 0.377 * engine_speed * r / (ig * i0) *)
vehicle_speed_inverted(self, ig, i0, n) ==
  QDiv(QMul(QMul(QMul(Q(377, 1000), Q(n, 1)), self.r), ig), i0)

vehicle_speed_kmh(self, ig, i0, n) ==
  QDiv(QMul(QMul(Q(377, 1000), Q(n, 1)), self.r), QMul(ig, i0))

(* tractive_force = engine_torque * ig * i0 * eta_T / r *)
tractive_force_N(self, ig, i0, Ttq) ==
  QDiv(QMul(QMul(QMul(Q(Ttq, 1), ig), i0), self.eta_T), self.r)

(* Returns the pair (vehicle_speed, tractive_force); self.gear_ratios of   *)
(* an unknown gear name raises KeyError.                                   *)
calculate_tractive_force(self, gear_name) ==
  IF gear_name \notin DOMAIN self.gear_ratios THEN Raise("KeyError", <<>>)
  ELSE
    LET ig == self.gear_ratios[gear_name]
        i0 == self.final_drive_ratio
        vehicle_speed ==
          Array([k \in 1..Len(self.engine_speed) |->
                   vehicle_speed_kmh(self, ig, i0, self.engine_speed[k])])
        tractive_force ==
          Array([k \in 1..Len(self.engine_torque) |->
                   tractive_force_N(self, ig, i0, self.engine_torque[k])])
    IN  Return(<<vehicle_speed, tractive_force>>, <<>>)

(* rolling_resistance = m * g * f * ones_like(v): the product m * g * f is *)
(* taken first, then times the array of ones.                              *)
rolling_with_speed(m_g_f, v) == QMul(m_g_f, v)

rolling_resistance_N(m_g_f, v) == QMul(m_g_f, Q(1, 1))

(* air_resistance = 0.5 * Cd * A * rho * vehicle_speed_ms**2: the product  *)
(* 0.5 * Cd * A * rho is taken first, then times the array of squares.     *)
air_resistance_N(half_Cd_A_rho, vehicle_speed_ms) ==
  QMul(half_Cd_A_rho, QMul(vehicle_speed_ms, vehicle_speed_ms))

(* total_resistance = rolling_resistance + air_resistance + grade_resistance *)
resistance_terms(rolling, air, grade) ==
  [total |-> QAdd(QAdd(rolling, air), grade),
   rolling |-> rolling, air |-> air, grade |-> grade]

(* The four forces at one speed; vehicle_speed_ms = vehicle_speed_kmh / 3.6 *)
(* and grade_resistance = 0.                                               *)
resistance_at(m_g_f, half_Cd_A_rho, v) ==
  resistance_terms(rolling_resistance_N(m_g_f, v),
                   air_resistance_N(half_Cd_A_rho, QDiv(v, Q(36, 10))),
                   Q(0, 1))

(* The dictionary of the four arrays. *)
resistance_arrays(points) ==
  [total |-> Array([i \in 1..Len(points) |-> points[i].total]),
   rolling |-> Array([i \in 1..Len(points) |-> points[i].rolling]),
   air |-> Array([i \in 1..Len(points) |-> points[i].air]),
   grade |-> Array([i \in 1..Len(points) |-> points[i].grade])]

resistance_points(m_g_f, half_Cd_A_rho, speeds) ==
  Array([i \in 1..Len(speeds) |->
           resistance_at(m_g_f, half_Cd_A_rho, speeds[i])])

(* speeds is the array np.asarray makes of the argument (a scalar is an    *)
(* array of one element); every speed is computed with, whatever its sign. *)
calculate_resistance_force(self, speeds) ==
  Return(resistance_arrays(
           resistance_points(
             QMul(QMul(self.m, self.g), self.f),
             QMul(QMul(QMul(Q(5, 10), self.Cd), self.A), self.rho),
             speeds)),
         <<>>)

(* np.linspace(start, stop, num): start + i * ((stop - start) / (num - 1)) *)
linspace(start, stop, num) ==
  Array([i \in 1..num |->
           RAdd(RInt(start), RMul(RInt(i - 1), Rat(stop - start, num - 1)))])

WideArray(a) == Array([i \in 1..Len(a) |-> QOf(a[i])])

(* slope * (x - xp[j]) + fp[j] *)
on_segment(x, xp, fp, j) ==
  QAdd(QMul(QDiv(QSub(fp[j + 1], fp[j]), QSub(xp[j + 1], xp[j])),
            QSub(x, xp[j])),
       fp[j])

(* np.interp(x, xp, fp) for increasing xp: fp[0] up to xp[0], fp[-1] from  *)
(* xp[-1] on, and on the segment that holds x the line through its ends.   *)
interp(x, xp, fp) ==
  IF QLe(x, xp[1]) THEN fp[1]
  ELSE IF QLe(xp[Len(xp)], x) THEN fp[Len(fp)]
  ELSE on_segment(x, xp, fp,
                  CHOOSE j \in 1..(Len(xp) - 1) :
                    QLe(xp[j], x) /\ QLt(x, xp[j + 1]))

(* np.interp(speed_range, v, ft) for the pair curve = (v, ft) of a gear *)
interp_array(x, curve) ==
  Array([i \in 1..Len(x) |-> interp(x[i], curve[1], curve[2])])

(* np.where(ft_interp >= resistances['total'])[0] *)
intersection_idx(ft_interp, total) ==
  {i \in 1..Len(total) : QLe(total[i], ft_interp[i])}

(* idx[0] *)
first_index(idx) == CHOOSE i \in idx : \A j \in idx : i <= j

(* idx[-1] *)
last_index(idx) == CHOOSE i \in idx : \A j \in idx : j <= i

(* max_speed = speed_range[intersection_idx[-1]] if len(intersection_idx)  *)
(* > 0, else 0                                                             *)
last_speed(speed_range, idx) ==
  IF idx # {} THEN speed_range[last_index(idx)] ELSE RInt(0)

(* The grid scan of one gear against the resistance total on speed_range. *)
grid_max_speed(self, gear_name, speed_range, total) ==
  last_speed(speed_range,
             intersection_idx(
               interp_array(WideArray(speed_range),
                            calculate_tractive_force(self, gear_name).value),
               total))

(* min(max(sin_theta, 0), 0.5) *)
py_max(a, b) == IF QLt(a, b) THEN b ELSE a

py_min_first(a, b) == a

py_min(a, b) == IF QLt(b, a) THEN b ELSE a

(* np.argmin(np.abs(v - probe)): the first index of the least distance *)
argmin_abs(v, probe) ==
  CHOOSE k \in 1..Len(v) :
    /\ \A j \in 1..Len(v) :
         QLe(QAbs(QSub(v[k], probe)), QAbs(QSub(v[j], probe)))
    /\ \A j \in 1..(k - 1) :
         QLt(QAbs(QSub(v[k], probe)), QAbs(QSub(v[j], probe)))

(* ft_1st[idx_10kmh] *)
nearest_force(curve, probe) == curve[2][argmin_abs(curve[1], probe)]

(* available_force = max_tractive_force - resistances_at_10['total'], for  *)
(* gear '1档' and the probe speed 10 km/h                                  *)
available_force(self) ==
  QSub(nearest_force(calculate_tractive_force(self, 1).value, Q(10, 1)),
       calculate_resistance_force(self, <<Q(10, 1)>>).value.total[1])

(* round(x, 1) of a speed or time: the nearest multiple of 0.1 *)
round_1(x) == Rat(format_1f(x), 10)

(* np.arcsin(sin_theta) * 180 / np.pi and np.tan(np.arcsin(sin_theta)) *   *)
(* 100, rounded to 0.1, are increasing functions of sin_theta that are 0   *)
(* at 0 and 30.0 degrees and 57.7 percent at 0.5.  The model keeps the     *)
(* angle and the percent as the sin_theta they are computed from.          *)
arcsin_degrees(sin_theta) == [arcsin_degrees_of |-> sin_theta]

tan_arcsin_percent(sin_theta) == [tan_arcsin_percent_of |-> sin_theta]

(* The branch on available_force > 0. *)
max_grade(available, mg) ==
  IF QLt(Q(0, 1), available)
  THEN [degrees |->
          arcsin_degrees(py_min(py_max(QDiv(available, mg), Q(0, 1)),
                                Q(5, 10))),
        percent |->
          tan_arcsin_percent(py_min(py_max(QDiv(available, mg), Q(0, 1)),
                                    Q(5, 10)))]
  ELSE [degrees |-> RInt(0), percent |-> RInt(0)]

(* The dictionary returned, its keys written in ASCII:                     *)
(*   max_speed_kmh      '最高车速 (km/h)'                                  *)
(*   max_grade_deg      '最大爬坡度 (°)'                                   *)
(*   max_grade_percent  '最大爬坡度 (%)'                                   *)
(*   accel_time_s       '估算0-100km/h加速时间 (s)'                        *)
(* accel_time = (100 / 3.6) / avg_acceleration with avg_acceleration 2.5.  *)
performance(max_speed, grade) ==
  [max_speed_kmh |-> round_1(max_speed),
   max_grade_deg |-> grade.degrees,
   max_grade_percent |-> grade.percent,
   accel_time_s |-> round_1(RDiv(RDiv(RInt(100), Rat(36, 10)), Rat(25, 10)))]

(* The scan of gear '5档' on speed_range. *)
max_speed_on(self, speed_range) ==
  grid_max_speed(self, 5, speed_range,
                 calculate_resistance_force(self, WideArray(speed_range))
                   .value.total)

calculate_performance_indicators(self) ==
  Return(performance(max_speed_on(self, linspace(0, 220, 500)),
                     max_grade(available_force(self), QMul(self.m, self.g))),
         <<>>)

----------------------------------------------------------------------------
(* Inputs.  CG offsets lie on a grid commensurate with the axle spacings   *)
(* (100 mm for spacings in whole hundreds of mm), from CgFront grid steps  *)
(* ahead of axle 2 to CgBack grid steps behind it (axle 4 is 62 steps      *)
(* behind axle 2 in the constructor's geometry).  The first call on a      *)
(* constructed calculator takes its arguments from the whole grid; a call  *)
(* that follows another call takes them from a sample of it.               *)

CgFront == 12

CgBack == 70

Grid == IF L1 % 100 = 0 /\ L2 % 100 = 0 /\ L3 % 100 = 0 THEN 100 ELSE 1

Fresh == last_call.op = "__init__"

CgOffsets ==
  IF Fresh THEN {Grid * i : i \in (-CgFront)..CgBack}
  ELSE {Grid * i : i \in {-CgFront, 0, 23, CgBack}}

(* Sweep arguments in half grid steps: main()'s (0, 4800) by 50 and the    *)
(* default step 100, ranges whose length is no multiple of the step,       *)
(* reversed ranges, and steps that are zero or negative.                   *)
SweepStarts ==
  IF Fresh THEN {(Grid * i) \div 2 : i \in {-12, 0, 6, 44}} ELSE {0}

SweepEnds ==
  IF Fresh THEN {(Grid * i) \div 2 : i \in {-6, 0, 5, 48, 96}}
  ELSE {(Grid * i) \div 2 : i \in {5, 96}}

SweepSteps ==
  IF Fresh THEN {(Grid * k) \div 2 : k \in {-2, 0, 1, 2, 4}}
  ELSE {(Grid * k) \div 2 : k \in {0, 4}}

----------------------------------------------------------------------------
(* The constructor.                                                        *)

positions(l1, l2, l3) ==
  [axle1 |-> 0, axle2 |-> l1, axle3 |-> l1 + l2, axle4 |-> l1 + l2 + l3]

Constructed(W, l1, l2, l3, e) ==
  /\ total_weight = W
  /\ L1 = l1
  /\ L2 = l2
  /\ L3 = l3
  /\ axle_positions = positions(l1, l2, l3)
  /\ len_exp = e
  /\ last_call = [op |-> "__init__", args |-> <<>>]
  /\ returned = None
  /\ raised = "none"
  /\ stdout = <<>>
  /\ equilibrium_point = None
  /\ max_front = None
  /\ max_rear = None

Init ==
  /\ Constructed(24700, 1800, 4800, 1400, 0)
  /\ vehicle = VehiclePerformanceAnalysis

(* Other configurations the constructor's constants may be edited to, all  *)
(* with spacings > 0: spacings of a few millionths of a mm (len_exp = 6),  *)
(* for which 4*S2 - S1^2 lies on either side of 1e-10 mm^2, and spacings   *)
(* of a few mm.                                                            *)
Geometries ==
  { <<24700, 1800, 4800, 1400, 0>>,
    <<24700, 1, 1, 1, 6>>,
    <<24700, 2, 1, 3, 6>>,
    <<24700, 3, 5, 2, 6>>,
    <<1000, 3, 5, 2, 0>> }

InitGeom ==
  /\ \E c \in Geometries : Constructed(c[1], c[2], c[3], c[4], c[5])
  /\ vehicle = VehiclePerformanceAnalysis

(* Other vehicles the attributes may be set to (interactive_analysis sets  *)
(* m, Cd, A and f from input): the constructor's; f = 0.4, whose gear 5    *)
(* balances inside its curve; f = 0.7, whose gear 5 never reaches the      *)
(* resistance and whose gear 1 cannot climb; f = 0.39625 with A = 11000,   *)
(* whose gear 5 reaches the resistance at 0 km/h only.                     *)
Vehicles ==
  << VehiclePerformanceAnalysis,
     [VehiclePerformanceAnalysis EXCEPT !.f = Q(4, 10)],
     [VehiclePerformanceAnalysis EXCEPT !.f = Q(7, 10)],
     [VehiclePerformanceAnalysis EXCEPT !.f = Q(39625, 100000),
                                        !.A = Q(11000, 1)] >>

InitVehicle ==
  /\ Constructed(24700, 1800, 4800, 1400, 0)
  /\ \E i \in DOMAIN Vehicles : vehicle = Vehicles[i]

(* A call that hands back what the previous call of the same operation    *)
(* returned instead of computing it from its own arguments.               *)
Call_cached(op, args, outcome) ==
  /\ last_call' = [op |-> op, args |-> args]
  /\ returned' = IF last_call.op = op THEN returned ELSE outcome.value
  /\ raised' = outcome.exc
  /\ stdout' = outcome.out
  /\ UNCHANGED config

(* The state keeps the outcome of the most recent call: what it returned   *)
(* or raised and what it printed.                                          *)
Call(op, args, outcome) ==
  /\ last_call' = [op |-> op, args |-> args]
  /\ returned' = outcome.value
  /\ raised' = outcome.exc
  /\ stdout' = outcome.out
  /\ UNCHANGED config

NoReport ==
  /\ equilibrium_point' = None
  /\ max_front' = None
  /\ max_rear' = None

CalculateAxleLoads ==
  \E cg \in CgOffsets :
    /\ Call("calculate_axle_loads", <<cg>>, calculate_axle_loads(cg))
    /\ NoReport

CalculateAxleLoadsNewModel ==
  \E cg \in CgOffsets :
    /\ Call("calculate_axle_loads_new_model", <<cg>>,
            calculate_axle_loads_new_model(cg))
    /\ NoReport

CalculateAxleLoadsOld ==
  \E cg \in CgOffsets :
    /\ Call("calculate_axle_loads_old", <<cg>>, calculate_axle_loads_old(cg))
    /\ NoReport

(* results = calculator.analyze_load_distribution(cg_range, step)          *)
AnalyzeLoadDistribution ==
  \E start \in SweepStarts, end \in SweepEnds, step \in SweepSteps :
    /\ Call("analyze_load_distribution", <<start, end, step>>,
            analyze_load_distribution(<<start, end>>, step))
    /\ NoReport

AnalyzeLoadDistributionNew ==
  \E start \in SweepStarts, end \in SweepEnds, step \in SweepSteps :
    /\ Call("analyze_load_distribution_new", <<start, end, step>>,
            analyze_load_distribution_new(<<start, end>>, step))
    /\ NoReport

Swept ==
  /\ last_call.op \in {"analyze_load_distribution",
                       "analyze_load_distribution_new"}
  /\ raised = "none"

(* calculator.find_special_points(results), results being what the sweep   *)
(* just returned, as in main().  It returns None; max() of an empty list   *)
(* raises ValueError after the equilibrium loop has run.  The points it    *)
(* finds are what it prints.                                               *)
FindSpecialPoints ==
  /\ Swept
  /\ LET rs == returned
     IN  /\ equilibrium_point' = find_equilibrium(rs)
         /\ IF Len(rs) = 0
            THEN /\ Call("find_special_points", <<rs>>,
                         Raise("ValueError", <<>>))
                 /\ UNCHANGED <<max_front, max_rear>>
            ELSE /\ Call("find_special_points", <<rs>>,
                         Return(None, <<>>))
                 /\ max_front' = max_by(rs, "front_total")
                 /\ max_rear' = max_by(rs, "rear_total")

CompareModels ==
  \E start \in SweepStarts, end \in SweepEnds, step \in SweepSteps :
    /\ Call("compare_models", <<start, end, step>>,
            compare_models(<<start, end>>, step))
    /\ NoReport

Next ==
  \/ CalculateAxleLoads
  \/ CalculateAxleLoadsNewModel
  \/ CalculateAxleLoadsOld
  \/ AnalyzeLoadDistribution
  \/ AnalyzeLoadDistributionNew
  \/ FindSpecialPoints
  \/ CompareModels

Spec == Init /\ [][Next]_vars

SpecGeom == InitGeom /\ [][Next]_vars

----------------------------------------------------------------------------
(* The calls of dynamic_simulation.py on the object `vehicle`.  The        *)
(* methods that draw charts are not modelled.                              *)

(* A gear of the table, or 0 for a name the table does not hold. *)
GearNames == DOMAIN vehicle.gear_ratios \cup {0}

(* Speeds in km/h passed to calculate_resistance_force: a scalar or an     *)
(* array, some with speeds below 0.                                        *)
SpeedInputs ==
  { <<0>>, <<10>>, <<36>>, <<72>>, <<220>>, <<-10>>, <<-36>>,
    <<0, 36, 72>>, <<-36, 0, 36>>, <<>> }

SpeedArray(speeds) == Array([i \in 1..Len(speeds) |-> Q(speeds[i], 1)])

CalculateTractiveForce ==
  \E gear_name \in GearNames :
    /\ Call("calculate_tractive_force", <<gear_name>>,
            calculate_tractive_force(vehicle, gear_name))
    /\ NoReport

CalculateResistanceForce ==
  \E speeds \in SpeedInputs :
    /\ Call("calculate_resistance_force", <<speeds>>,
            calculate_resistance_force(vehicle, SpeedArray(speeds)))
    /\ NoReport

(* The indicators are evaluated once for each vehicle of Vehicles and      *)
(* looked up by the calls.                                                 *)
IndicatorsOf ==
  Array([i \in DOMAIN Vehicles |->
           calculate_performance_indicators(Vehicles[i])])

CalculatePerformanceIndicators ==
  \E i \in DOMAIN Vehicles :
    /\ vehicle = Vehicles[i]
    /\ Call("calculate_performance_indicators", <<>>, IndicatorsOf[i])
    /\ NoReport

NextVehicle ==
  \/ CalculateTractiveForce
  \/ CalculateResistanceForce
  \/ CalculatePerformanceIndicators

SpecVehicle == InitVehicle /\ [][NextVehicle]_vars

(* Calls on the two objects in any order. *)
NextAll == Next \/ NextVehicle

SpecAll == Init /\ [][NextAll]_vars

----------------------------------------------------------------------------
(* Properties.                                                             *)

EqualPairCall ==
  /\ last_call.op \in {"calculate_axle_loads", "calculate_axle_loads_old"}
  /\ raised = "none"

RigidFrameCall ==
  /\ last_call.op = "calculate_axle_loads_new_model"
  /\ raised = "none"

(* The load samples the last call returned. *)
Samples ==
  IF EqualPairCall \/ RigidFrameCall THEN {returned}
  ELSE IF Swept THEN {returned[i] : i \in 1..Len(returned)}
  ELSE {}

EqualPairSamples ==
  IF EqualPairCall THEN {returned}
  ELSE IF Swept /\ last_call.op = "analyze_load_distribution"
       THEN {returned[i] : i \in 1..Len(returned)}
       ELSE {}

(* |a - b| <= 1e-6 * b, for b a positive whole number of kg. *)
WithinTol(a, b) ==
  LET e == RAbs(RSub(a, RInt(b)))
      tol == Rat(b, 1000000)
  IN  e.n = 0 \/ (e.n < e.d /\ ~RLt(tol, e))

AxleLoadSum(r) ==
  RSum4(r.axle1_load, r.axle2_load, r.axle3_load, r.axle4_load)

(* C1: for every CG offset and both load models, the four axle loads of a  *)
(* returned sample sum to total_weight, and front_total + rear_total       *)
(* equals total_weight (within the 1e-6 relative tolerance).               *)
C1_LoadsSumToTotalWeight ==
  \A r \in Samples :
    /\ WithinTol(AxleLoadSum(r), total_weight)
    /\ WithinTol(RAdd(r.front_total, r.rear_total), total_weight)

(* C1 witness: a RIGID_FRAME sample for a CG behind axle 4, with negative  *)
(* load on axle 1, whose loads sum to total_weight.                        *)
C1_Witness ==
  /\ RigidFrameCall
  /\ returned.cg_absolute > axle_positions.axle4
  /\ RNegative(returned.axle1_load)
  /\ AxleLoadSum(returned) = RInt(total_weight)

(* C2: every EQUAL_PAIR sample, from a single call or from a sweep, has    *)
(* axle1_load = axle2_load and axle3_load = axle4_load.                    *)
C2_EqualPairs ==
  \A r \in EqualPairSamples :
    /\ r.axle1_load = r.axle2_load
    /\ r.axle3_load = r.axle4_load

(* C2 witness: a sweep of the EQUAL_PAIR model whose samples carry         *)
(* different loads on the front and the rear pair.                         *)
C2_Witness ==
  /\ Swept
  /\ last_call.op = "analyze_load_distribution"
  /\ Len(returned) > 1
  /\ \E i \in 1..Len(returned) :
       returned[i].axle1_load # returned[i].axle3_load

(* The moment of the loads about the CG, in units of total_weight times    *)
(* half a grid step: sum of (load_i / W) * (x_i - cg_absolute).            *)
ArmUnit == IF Grid = 1 THEN 1 ELSE Grid \div 2

Arm(r, x) ==
  Rat(x - r.cg_absolute, ArmUnit)

Share(load) == RDiv(load, RInt(total_weight))

MomentAboutCG(r) ==
  RSum4(RMul(Share(r.axle1_load), Arm(r, axle_positions.axle1)),
        RMul(Share(r.axle2_load), Arm(r, axle_positions.axle2)),
        RMul(Share(r.axle3_load), Arm(r, axle_positions.axle3)),
        RMul(Share(r.axle4_load), Arm(r, axle_positions.axle4)))

(* C3: for every CG offset the loads of each model balance the moments     *)
(* about the CG: sum of load_i * (axle_position_i - cg_absolute) = 0 with  *)
(* cg_absolute = L1 + cg_offset.                                           *)
C3_MomentBalance ==
  \A r \in Samples :
    /\ r.cg_absolute = L1 + r.cg_position
    /\ MomentAboutCG(r) = RInt(0)

(* C3 witness: a RIGID_FRAME sample with the CG off every axle and         *)
(* different loads within each pair, in moment balance.                    *)
C3_Witness ==
  /\ RigidFrameCall
  /\ returned.cg_absolute \notin
       {axle_positions.axle1, axle_positions.axle2,
        axle_positions.axle3, axle_positions.axle4}
  /\ returned.axle1_load # returned.axle2_load
  /\ returned.axle3_load # returned.axle4_load
  /\ MomentAboutCG(returned) = RInt(0)

SumOfDistances(cg_position) ==
  LET d == d_list(cg_position) IN d[1] + d[2] + d[3] + d[4]

(* C4: in the RIGID_FRAME model, at the CG offset where S1 = 0 (2300 mm    *)
(* from axle 2 in the constructor's geometry) each of the four axle loads  *)
(* is total_weight / 4.                                                    *)
C4_CentroidEvenSplit ==
  (RigidFrameCall /\ SumOfDistances(last_call.args[1]) = 0) =>
    /\ returned.axle1_load = Rat(total_weight, 4)
    /\ returned.axle2_load = Rat(total_weight, 4)
    /\ returned.axle3_load = Rat(total_weight, 4)
    /\ returned.axle4_load = Rat(total_weight, 4)

(* C4 witness: the RIGID_FRAME model called at offset 2300, where S1 = 0.  *)
C4_Witness ==
  /\ RigidFrameCall
  /\ last_call.args = <<2300>>
  /\ SumOfDistances(2300) = 0
  /\ returned.axle1_load = RInt(6175)

DefaultAtAxle2 ==
  /\ last_call.op = "calculate_axle_loads"
  /\ last_call.args = <<0>>
  /\ total_weight = 24700 /\ L1 = 1800 /\ L2 = 4800 /\ L3 = 1400

(* C5 as stated: with the default parameters and cg_offset = 0 the         *)
(* EQUAL_PAIR model gives, to one decimal, rear_per_axle 1736.5,           *)
(* front_per_axle 10613.5, front_total 21227.0, rear_total 3473.0.         *)
C5_AsStated ==
  DefaultAtAxle2 =>
    /\ format_1f(returned.rear_per_axle) = 17365
    /\ format_1f(returned.front_per_axle) = 106135
    /\ format_1f(returned.front_total) = 212270
    /\ format_1f(returned.rear_total) = 34730
    /\ RAdd(returned.front_total, returned.rear_total) = RInt(24700)

(* C5 amended: with the default parameters and cg_offset = 0 the           *)
(* EQUAL_PAIR model gives, to one decimal, rear_per_axle 1736.7,           *)
(* front_per_axle 10613.3, front_total 21226.6, rear_total 3473.4, and     *)
(* front_total + rear_total = 24700.                                       *)
C5_DefaultLoadsAtAxle2 ==
  DefaultAtAxle2 =>
    /\ format_1f(returned.rear_per_axle) = 17367
    /\ format_1f(returned.front_per_axle) = 106133
    /\ format_1f(returned.front_total) = 212266
    /\ format_1f(returned.rear_total) = 34734
    /\ RAdd(returned.front_total, returned.rear_total) = RInt(24700)

(* C5 witness: calculate_axle_loads(0) has returned on the default         *)
(* calculator; the exact rear load per axle is 55575/32 kg.                *)
C5_Witness ==
  /\ DefaultAtAxle2
  /\ raised = "none"
  /\ returned.rear_per_axle = Rat(55575, 32)

SweepCall ==
  last_call.op \in {"analyze_load_distribution",
                    "analyze_load_distribution_new"}

SweepStart == last_call.args[1]

SweepEnd == last_call.args[2]

SweepStep == last_call.args[3]

(* C6 as stated: for start <= end and step > 0 a sweep returns samples at  *)
(* start, start + step, ... in increasing order, the first at start, and   *)
(* none at an offset greater than end.                                     *)
C6_AsStated ==
  (SweepCall /\ SweepStart <= SweepEnd /\ SweepStep > 0) =>
    /\ raised = "none"
    /\ Len(returned) >= 1
    /\ \A i \in 1..Len(returned) :
         /\ returned[i].cg_position = SweepStart + (i - 1) * SweepStep
         /\ returned[i].cg_position <= SweepEnd

(* The exceptions that count as the InvalidRange failure: any exception    *)
(* the sweep raises on its arguments.                                      *)
InvalidRangeErrors == {"InvalidRange", "ValueError", "ZeroDivisionError"}

(* C7 as stated: a sweep with start > end or step <= 0 fails with an       *)
(* InvalidRange error and returns no samples; it never returns an empty or *)
(* a partial sample sequence.                                              *)
C7_AsStated ==
  (SweepCall /\ (SweepStart > SweepEnd \/ SweepStep <= 0)) =>
    raised \in InvalidRangeErrors

(* |denominator| < 1e-10 mm^2, the denominator being a whole number of     *)
(* 10^(-2*len_exp) mm^2.                                                   *)
WithinEpsOfZero(denominator) ==
  IF len_exp >= 5 THEN Abs(denominator) < Pow10(2 * len_exp - 10)
  ELSE denominator = 0

Warned(kind, cg) ==
  \E i \in 1..Len(stdout) : stdout[i] = [warning |-> kind, cg |-> cg]

HasNegativeLoad(r) ==
  \/ RNegative(r.axle1_load)
  \/ RNegative(r.axle2_load)
  \/ RNegative(r.axle3_load)
  \/ RNegative(r.axle4_load)

(* A sample is flagged when the returned dict carries a flag or the call   *)
(* printed the negative-load warning for its offset.                       *)
Flagged(r) ==
  \/ "negative_load" \in DOMAIN r
  \/ Warned("negative_axle_load", r.cg_position)

(* C9 as stated: in both models a result with a negative axle load is      *)
(* returned without error and is flagged as containing a negative load.    *)
C9_AsStated ==
  \A r \in Samples : HasNegativeLoad(r) => Flagged(r)

(* The part of C9 that calculate.py keeps: its calculate_axle_loads prints *)
(* the warning for every result with a negative load.                      *)
C9_CalculatePyWarns ==
  (last_call.op = "calculate_axle_loads" /\ raised = "none") =>
    (HasNegativeLoad(returned) <=> Flagged(returned))

FoundCall == last_call.op = "find_special_points"

FoundIn == last_call.args[1]

Diff(r) == RAbs(RSub(r.front_total, r.rear_total))

(* C10: for a non-empty sample sequence the equilibrium search selects a   *)
(* sample with the least |front_total - rear_total|, and among several     *)
(* such samples the first in sweep order.                                  *)
C10_EquilibriumFirstMinimum ==
  (FoundCall /\ Len(FoundIn) > 0) =>
    \E k \in 1..Len(FoundIn) :
      /\ equilibrium_point = FoundIn[k]
      /\ \A j \in 1..Len(FoundIn) : ~RLt(Diff(FoundIn[j]), Diff(FoundIn[k]))
      /\ \A j \in 1..(k - 1) : RLt(Diff(FoundIn[k]), Diff(FoundIn[j]))

(* C10 witness: the search has run on a sweep in which two samples attain  *)
(* the least difference, and the earlier one was selected.                 *)
C10_Witness ==
  /\ FoundCall
  /\ Len(FoundIn) > 1
  /\ \E k \in 1..Len(FoundIn) : \E j \in (k + 1)..Len(FoundIn) :
       /\ equilibrium_point = FoundIn[k]
       /\ Diff(FoundIn[j]) = Diff(FoundIn[k])
       /\ \A i \in 1..Len(FoundIn) : ~RLt(Diff(FoundIn[i]), Diff(FoundIn[k]))

(* The index of the first sample of the searched sequence whose key is not *)
(* exceeded by any other sample.                                           *)
FirstMaximum(key) ==
  CHOOSE k \in 1..Len(FoundIn) :
    /\ \A j \in 1..Len(FoundIn) : ~RLt(FoundIn[k][key], FoundIn[j][key])
    /\ \A j \in 1..(k - 1) : RLt(FoundIn[j][key], FoundIn[k][key])

----------------------------------------------------------------------------
(* Properties of dynamic_simulation.py.                                    *)

ResistanceCall == last_call.op = "calculate_resistance_force"

SpeedsIn == last_call.args[1]

RollingForce == QMul(QMul(vehicle.m, vehicle.g), vehicle.f)

(* C12: at every speed >= 0 passed to calculate_resistance_force the       *)
(* rolling force is m*g*f, the same at every speed, the grade force is 0   *)
(* and the total is rolling + air + grade; at speed 0 the air force is 0   *)
(* and the total equals the rolling force.                                 *)
C12_ResistanceTerms ==
  ResistanceCall =>
    \A i \in 1..Len(SpeedsIn) :
      SpeedsIn[i] >= 0 =>
        /\ raised = "none"
        /\ QEq(returned.rolling[i], RollingForce)
        /\ QEq(returned.grade[i], Q(0, 1))
        /\ QEq(returned.total[i],
               QAdd(QAdd(returned.rolling[i], returned.air[i]),
                    returned.grade[i]))
        /\ SpeedsIn[i] = 0 =>
             /\ QEq(returned.air[i], Q(0, 1))
             /\ QEq(returned.total[i], returned.rolling[i])

(* C12 witness: resistance forces were returned for an array holding speed *)
(* 0 and a higher speed, at which the air force is above 0 and the rolling *)
(* force is the same.                                                      *)
C12_Witness ==
  /\ ResistanceCall
  /\ raised = "none"
  /\ \A k \in 1..Len(SpeedsIn) : SpeedsIn[k] >= 0
  /\ \E i, j \in 1..Len(SpeedsIn) :
       /\ SpeedsIn[i] = 0
       /\ SpeedsIn[j] > 0
       /\ QLt(Q(0, 1), returned.air[j])
       /\ QEq(returned.air[i], Q(0, 1))
       /\ QEq(returned.rolling[i], returned.rolling[j])
       /\ QLt(returned.total[i], returned.total[j])

(* C13: calculate_resistance_force fails with InvalidInput whenever a      *)
(* speed passed to it is below 0, and returns no resistance values then.   *)
C13_AsStated ==
  (ResistanceCall /\ \E i \in 1..Len(SpeedsIn) : SpeedsIn[i] < 0) =>
    /\ raised = "InvalidInput"
    /\ returned = None

PerformanceCall == last_call.op = "calculate_performance_indicators"

(* The grid of calculate_performance_indicators, the tractive force of     *)
(* gear '5档' interpolated onto it and the total resistance on it.         *)
IndicatorGrid == linspace(0, 220, 500)

TractiveOnGrid ==
  interp_array(WideArray(IndicatorGrid),
               calculate_tractive_force(vehicle, 5).value)

ResistanceOnGrid ==
  calculate_resistance_force(vehicle, WideArray(IndicatorGrid)).value.total

(* Some grid speed has tractive force >= resistance. *)
Balances(ft, total) == \E i \in 1..Len(total) : QLe(total[i], ft[i])

(* result is (to 0.1 km/h, as the summary rounds it) a grid speed with     *)
(* tractive force >= resistance above which every grid speed has tractive  *)
(* force < resistance.                                                     *)
IsLastBalance(speed_range, ft, total, result) ==
  \E k \in 1..Len(speed_range) :
    /\ result = round_1(speed_range[k])
    /\ QLe(total[k], ft[k])
    /\ \A j \in (k + 1)..Len(speed_range) : QLt(ft[j], total[j])

(* C14: when the tractive force of the gear reaches the resistance on the  *)
(* grid, the max speed computed is the last (highest) grid speed at which  *)
(* the interpolated tractive force is >= the total resistance, and the     *)
(* tractive force is < the resistance at every grid speed above it.        *)
C14_LastGridSpeedInBalance ==
  (PerformanceCall /\ Balances(TractiveOnGrid, ResistanceOnGrid)) =>
    IsLastBalance(IndicatorGrid, TractiveOnGrid, ResistanceOnGrid,
                  returned.max_speed_kmh)

(* C14 witness: the indicators were computed for a vehicle whose max speed *)
(* lies inside the grid, with grid speeds in balance below it and grid     *)
(* speeds out of balance above it.                                         *)
C14_Witness ==
  /\ PerformanceCall
  /\ RLt(RInt(0), returned.max_speed_kmh)
  /\ RLt(returned.max_speed_kmh, RInt(220))
  /\ Balances(TractiveOnGrid, ResistanceOnGrid)
  /\ ~QLe(ResistanceOnGrid[500], TractiveOnGrid[500])

(* C15: when the tractive force of the gear is below the resistance at     *)
(* every grid speed, the summary holds max speed 0 and a no-intersection   *)
(* flag that is set, which a summary with a last balanced grid speed of 0  *)
(* does not have set.                                                      *)
C15_AsStated ==
  (PerformanceCall /\ ~Balances(TractiveOnGrid, ResistanceOnGrid)) =>
    /\ returned.max_speed_kmh = RInt(0)
    /\ "no_intersection" \in DOMAIN returned
    /\ returned["no_intersection"] = TRUE

(* The tractive force of gear '1档' at the curve point nearest the probe   *)
(* speed 10 km/h, minus the total resistance at 10 km/h.                   *)
AvailableForce ==
  QSub(nearest_force(calculate_tractive_force(vehicle, 1).value, Q(10, 1)),
       calculate_resistance_force(vehicle, <<Q(10, 1)>>).value.total[1])

Weight == QMul(vehicle.m, vehicle.g)

Clamp(x, low, high) ==
  IF QLt(x, low) THEN low ELSE IF QLt(high, x) THEN high ELSE x

(* The angle and the percent are those of the sine s. *)
GradeOfSine(s) ==
  /\ returned.max_grade_deg = arcsin_degrees(returned.max_grade_deg.arcsin_degrees_of)
  /\ returned.max_grade_percent =
       tan_arcsin_percent(returned.max_grade_percent.tan_arcsin_percent_of)
  /\ QEq(returned.max_grade_deg.arcsin_degrees_of, s)
  /\ QEq(returned.max_grade_percent.tan_arcsin_percent_of, s)

(* C16: the sine of the reported grade is available_force / (m*g) clamped  *)
(* to [0, 0.5], so it never exceeds 0.5 (30 degrees) however large the     *)
(* tractive force; when available_force <= 0 the angle and the percent are *)
(* 0; no error is raised.                                                  *)
C16_GradeClamped ==
  PerformanceCall =>
    /\ raised = "none"
    /\ IF QLt(Q(0, 1), AvailableForce)
       THEN /\ GradeOfSine(Clamp(QDiv(AvailableForce, Weight),
                                 Q(0, 1), Q(5, 10)))
            /\ QLe(returned.max_grade_deg.arcsin_degrees_of, Q(5, 10))
       ELSE /\ returned.max_grade_deg = RInt(0)
            /\ returned.max_grade_percent = RInt(0)

(* C16 witness: the indicators were computed for a vehicle whose available *)
(* force is above half its weight, and the sine reported is 0.5.           *)
C16_Witness ==
  /\ PerformanceCall
  /\ QLt(Q(5, 10), QDiv(AvailableForce, Weight))
  /\ GradeOfSine(Q(5, 10))

(* What a call computes from the configuration and its own arguments. *)
OutcomeOf(call) ==
  CASE call.op = "calculate_axle_loads" ->
         calculate_axle_loads(call.args[1])
    [] call.op = "calculate_axle_loads_new_model" ->
         calculate_axle_loads_new_model(call.args[1])
    [] call.op = "calculate_axle_loads_old" ->
         calculate_axle_loads_old(call.args[1])
    [] call.op = "analyze_load_distribution" ->
         analyze_load_distribution(<<call.args[1], call.args[2]>>,
                                   call.args[3])
    [] call.op = "analyze_load_distribution_new" ->
         analyze_load_distribution_new(<<call.args[1], call.args[2]>>,
                                       call.args[3])
    [] call.op = "compare_models" ->
         compare_models(<<call.args[1], call.args[2]>>, call.args[3])
    [] call.op = "find_special_points" ->
         IF Len(call.args[1]) = 0 THEN Raise("ValueError", <<>>)
         ELSE Return(None, <<>>)
    [] call.op = "calculate_tractive_force" ->
         calculate_tractive_force(vehicle, call.args[1])
    [] call.op = "calculate_resistance_force" ->
         calculate_resistance_force(vehicle, SpeedArray(call.args[1]))
    [] call.op = "calculate_performance_indicators" ->
         calculate_performance_indicators(vehicle)

Reproducible ==
  last_call.op # "__init__" =>
    /\ returned = OutcomeOf(last_call).value
    /\ raised = OutcomeOf(last_call).exc
    /\ stdout = OutcomeOf(last_call).out
    /\ last_call.op = "find_special_points" =>
         equilibrium_point = find_equilibrium(last_call.args[1])

(* C17: no call on either object, in any order, changes a configuration    *)
(* field (total_weight, L1, L2, L3, axle_positions; m, g, rho, Cd, A, f,   *)
(* eta_T, r, gear_ratios, final_drive_ratio, engine_speed, engine_torque), *)
(* and what a call returns, raises and prints is determined by the         *)
(* configuration and the call's own arguments, whatever calls preceded it. *)
C17_Stateless ==
  /\ [][config' = config]_vars
  /\ []Reproducible

(* C17 witness: with both objects as constructed, a traction call has     *)
(* returned what it computes from the vehicle's attributes, and the axle  *)
(* geometry is still the constructor's.                                    *)
C17_Witness ==
  /\ last_call.op = "calculate_tractive_force"
  /\ last_call.args = <<16>>
  /\ raised = "none"
  /\ returned = calculate_tractive_force(VehiclePerformanceAnalysis, 16).value
  /\ vehicle = VehiclePerformanceAnalysis
  /\ axle_positions = positions(1800, 4800, 1400)
  /\ total_weight = 24700

TractiveCall ==
  /\ last_call.op = "calculate_tractive_force"
  /\ raised = "none"

StrictlyIncreasing(a) ==
  \A k \in 1..(Len(a) - 1) : QLt(a[k], a[k + 1])

(* Curve `low` is that of the larger ratio: slower and stronger at every   *)
(* engine-curve sample.                                                    *)
SlowerAndStronger(low, high) ==
  \A k \in DOMAIN vehicle.engine_speed :
    /\ QLt(low[1][k], high[1][k])
    /\ QLt(high[2][k], low[2][k])

(* C18: the curve calculate_tractive_force returns for a gear has one      *)
(* point per engine-curve sample, with strictly increasing speed, and      *)
(* against every gear of smaller ratio it has, sample by sample, the lower *)
(* speed and the higher force.                                             *)
C18_GearOrdering ==
  TractiveCall =>
    /\ Len(returned[1]) = Len(vehicle.engine_speed)
    /\ Len(returned[2]) = Len(vehicle.engine_speed)
    /\ StrictlyIncreasing(returned[1])
    /\ \A b \in DOMAIN vehicle.gear_ratios :
         QLt(vehicle.gear_ratios[b], vehicle.gear_ratios[last_call.args[1]])
           => SlowerAndStronger(returned,
                                calculate_tractive_force(vehicle, b).value)

(* C18 witness: the curve of gear 1 (ratio 13.8) was returned; there are   *)
(* gears of smaller ratio, and its top speed is below that of gear 16.     *)
C18_Witness ==
  /\ TractiveCall
  /\ last_call.args = <<1>>
  /\ QLt(vehicle.gear_ratios[16], vehicle.gear_ratios[1])
  /\ Len(returned[1]) = 10
  /\ QLt(returned[1][10], calculate_tractive_force(vehicle, 16).value[1][10])

----------------------------------------------------------------------------
(* The RIGID_FRAME denominator over the CG offsets.                        *)

PositiveSpacings == L1 > 0 /\ L2 > 0 /\ L3 > 0

AxleOffsets ==
  <<axle_positions.axle1, axle_positions.axle2,
    axle_positions.axle3, axle_positions.axle4>>

(* The sum over the six pairs of axles of the squared distance between     *)
(* them: a function of the axle positions alone.                           *)
PairwiseSquares ==
  LET x == AxleOffsets
      sq(a) == a * a
  IN  sq(x[1] - x[2]) + sq(x[1] - x[3]) + sq(x[1] - x[4])
        + sq(x[2] - x[3]) + sq(x[2] - x[4]) + sq(x[3] - x[4])

AllCgOffsets == {Grid * i : i \in (-CgFront)..CgBack}

SameDenominatorEverywhere ==
  /\ PairwiseSquares > 0
  /\ \A cg \in AllCgOffsets : rigid_frame_denominator(cg) = PairwiseSquares

FallbackTaken == Warned("denominator_near_zero", last_call.args[1])

----------------------------------------------------------------------------
(* The max speed against the gear's own curve.                             *)

(* The speed of gear '5档' at the highest engine-speed sample,             *)
(* 0.377 * 2200 * r / (ig * i0).                                           *)
CurveTopSpeed ==
  LET v == calculate_tractive_force(vehicle, 5).value[1]
  IN  v[Len(v)]

(* C20 as stated: the max speed calculate_performance_indicators reports   *)
(* for its gear never exceeds the highest speed on that gear's own         *)
(* tractive curve, and with the default parameters it is below the grid's  *)
(* upper bound of 220 km/h.                                                *)
C20_AsStated ==
  PerformanceCall =>
    /\ QLe(QOf(returned.max_speed_kmh), CurveTopSpeed)
    /\ vehicle = VehiclePerformanceAnalysis =>
         QLt(QOf(returned.max_speed_kmh), Q(220, 1))

====
